---- MODULE Spec2Model ----
(***************************************************************************)
(* RoopVana backend: the admission queue (services/geminiQueue.ts) and the *)
(* per-user credit ledger (middleware/rateLimiter.ts, routes/admin.ts).    *)
(*                                                                         *)
(* One userUsage document (one user) is modelled.  JavaScript numbers are  *)
(* doubles and the admin routes accept any non-negative number, so a       *)
(* balance is kept in units of 1/CreditScale of a credit: One is one whole *)
(* credit.  totalGenerations is a plain count.                             *)
(***************************************************************************)
EXTENDS Integers, Sequences, FiniteSets, TLC

\* ------------------------------------------------------------------ bounds
NumReq == 3
MaxCredits == 2
MaxSlots == 2
CreditScale == 2
NumAdmin == 2
NumPipe == 2
DayTicks == 2        \* clock ticks in 24 hours
MaxNow == 3          \* the clock stops here
MaxCap == 10         \* largest maxCreditsPerUser and starting balance tried
MaxIncrement == 5    \* largest dailyCreditIncrement tried
MaxEvals == 2        \* topUp evaluations in one behaviour

Req == 1 .. NumReq
Adm == 1 .. NumAdmin
\* the requests that run the whole pipeline (SpecPipeline, Spec)
Pipe == 1 .. NumPipe
NoReq == 0
One == CreditScale
\* req.currentCredits = -1: the balance is unknown (fail open)
Unknown == 0 - One

VARIABLES
    acct,            \* the userUsage/{uid} document
    initDoc,         \* the document before any request (never changes)
    pc,              \* where each request is in middleware + handler
    snap,            \* usageDoc read by the request's transaction
    outcome,         \* how the request's reserveOne ended
    currentCredits,  \* req.currentCredits
    refundCalls,     \* refundUserCredit invocations made for the request
    refundOk,        \* the request's refund reached the store
    maxConcurrent,   \* GeminiQueue.maxConcurrent
    activeCount,     \* GeminiQueue.activeCount
    queue,           \* GeminiQueue.queue (task ids, head first)
    tstate,          \* each task: new, queued, running, resolved, rejected
    handle,          \* the promise enqueue returned to each caller
    submitted,       \* tasks in the order enqueue was called
    waited,          \* tasks that were pushed on the wait list
    adm,             \* each admin call: its route, body and what it read
    creditReq,       \* status of the user's creditRequests document
    added,           \* credits added by the grants that completed
    now,             \* the clock, in ticks
    lastCreditRefresh, \* time of the last daily top-up evaluation
    policy,          \* dailyCreditIncrement, maxCreditsPerUser, exemption
    top,             \* the latest topUp evaluation: count, time, result
    bal              \* the GET /user/credits call: idle, sawDoc, sawNone, done

ledgerVars == <<acct, initDoc>>
reqVars == <<pc, snap, outcome, currentCredits, refundCalls, refundOk>>
queueVars == <<maxConcurrent, activeCount, queue, tstate, handle, submitted, waited>>
reviewVars == <<creditReq, added>>
topUpVars == <<now, lastCreditRefresh, policy, top>>
vars == <<acct, initDoc, pc, snap, outcome, currentCredits, refundCalls, refundOk,
          maxConcurrent, activeCount, queue, tstate, handle, submitted, waited, adm,
          creditReq, added, now, lastCreditRefresh, policy, top, bal>>

\* ---------------------------------------------------------------- documents
NoDoc == [exists |-> FALSE, credits |-> 0, totalGenerations |-> 0]
Doc(c, g) == [exists |-> TRUE, credits |-> c, totalGenerations |-> g]

AdmIdle == [op |-> "idle", credits |-> 0, sawDoc |-> FALSE, status |-> "", late |-> FALSE]
AdmDone == [op |-> "done", credits |-> 0, sawDoc |-> FALSE, status |-> "", late |-> FALSE]

\* a topUp evaluation that returned null, and the ledger's policy inputs
NullResult == [null |-> TRUE, awarded |-> 0, newBalance |-> 0, capped |-> FALSE]
NoTop == [n |-> 0, at |-> 0, result |-> NullResult, prevAt |-> 0, prevNull |-> TRUE]
NoPolicy == [increment |-> 0, cap |-> 0, exempt |-> TRUE]

Init ==
    /\ acct \in {NoDoc} \cup {Doc(k * One, g) : k \in 0 .. MaxCredits, g \in 0 .. 1}
    /\ initDoc = acct
    /\ pc = [r \in Req |-> "idle"]
    /\ snap = [r \in Req |-> NoDoc]
    /\ outcome = [r \in Req |-> "pending"]
    /\ currentCredits = [r \in Req |-> 0]
    /\ refundCalls = [r \in Req |-> 0]
    /\ refundOk = [r \in Req |-> FALSE]
    /\ maxConcurrent \in 1 .. MaxSlots
    /\ activeCount = 0
    /\ queue = <<>>
    /\ tstate = [t \in Req |-> "new"]
    /\ handle = [t \in Req |-> "pending"]
    /\ submitted = <<>>
    /\ waited = {}
    /\ adm = [a \in Adm |-> AdmIdle]
    /\ creditReq = "none"
    /\ added = 0
    /\ now = 0
    /\ lastCreditRefresh = 0
    /\ policy = NoPolicy
    /\ top = NoTop
    /\ bal = "idle"

\* ------------------------------------------------- CreditLedger.reserveOne
\* mutant: the deduction forgets the generation count
txBodyNoCount(usageDoc) ==
    IF ~usageDoc.exists
    THEN [success |-> FALSE, credits |-> 0, doc |-> Doc(0, 0)]
    ELSE IF usageDoc.credits <= 0
    THEN [success |-> FALSE, credits |-> 0, doc |-> usageDoc]
    ELSE [success |-> TRUE, credits |-> usageDoc.credits - One,
          doc |-> Doc(usageDoc.credits - One, usageDoc.totalGenerations)]

\* mutant: a first-time user is created with one credit
txBodyWelcome(usageDoc) ==
    IF ~usageDoc.exists
    THEN [success |-> FALSE, credits |-> 0, doc |-> Doc(One, 0)]
    ELSE IF usageDoc.credits <= 0
    THEN [success |-> FALSE, credits |-> 0, doc |-> usageDoc]
    ELSE [success |-> TRUE, credits |-> usageDoc.credits - One,
          doc |-> Doc(usageDoc.credits - One, usageDoc.totalGenerations + 1)]

\* The update function handed to db.runTransaction: what it returns and the
\* document it leaves.
txBody(usageDoc) ==
    IF ~usageDoc.exists
    THEN [success |-> FALSE, credits |-> 0, doc |-> Doc(0, 0)]
    ELSE IF usageDoc.credits <= 0
    THEN [success |-> FALSE, credits |-> 0, doc |-> usageDoc]
    ELSE [success |-> TRUE, credits |-> usageDoc.credits - One,
          doc |-> Doc(usageDoc.credits - One, usageDoc.totalGenerations + 1)]

\* mutant: a commit that never looks at concurrent writes
txValidNoIsolation(read, stored) == TRUE

\* A transaction commits only if the document it read is still the stored one;
\* otherwise the update function is run again on a fresh read.
txValid(read, stored) == read = stored

\* mutant: next() is called whatever the transaction returned
afterTxAlwaysNext(result) == "admitted"

\* What the middleware does with the transaction's result: 429 without next(),
\* or next() with the remaining balance attached.
afterTx(result) == IF result.success THEN "admitted" ELSE "rejected"

TxGet(r) ==
    /\ pc[r] \in {"idle", "txGet"}
    /\ pc' = [pc EXCEPT ![r] = "txRun"]
    /\ snap' = [snap EXCEPT ![r] = acct]
    /\ UNCHANGED <<acct, initDoc, outcome, currentCredits, refundCalls, refundOk, adm, reviewVars, topUpVars, bal>>
    /\ UNCHANGED queueVars

TxCommit(r) ==
    /\ pc[r] = "txRun"
    /\ IF txValid(snap[r], acct)
       THEN LET result == txBody(snap[r])
            IN /\ acct' = result.doc
               /\ pc' = [pc EXCEPT ![r] = afterTx(result)]
               /\ outcome' = [outcome EXCEPT ![r] = IF result.success THEN "granted" ELSE "denied"]
               /\ currentCredits' = IF afterTx(result) = "admitted"
                                    THEN [currentCredits EXCEPT ![r] = result.credits]
                                    ELSE currentCredits
       ELSE /\ pc' = [pc EXCEPT ![r] = "txGet"]
            /\ UNCHANGED <<acct, outcome, currentCredits>>
    /\ snap' = [snap EXCEPT ![r] = NoDoc]
    /\ UNCHANGED <<initDoc, refundCalls, refundOk, adm, reviewVars, topUpVars, bal>>
    /\ UNCHANGED queueVars

\* mutant: a catch block that fails closed
onTxErrorClosed == [pc |-> "rejected", currentCredits |-> 0]

\* The catch block of the middleware: next() with currentCredits = -1.
onTxError == [pc |-> "admitted", currentCredits |-> Unknown]

\* The store cannot be reached: runTransaction throws before anything is
\* written, and the catch block decides.
StoreError(r) ==
    /\ pc[r] \in {"idle", "txGet", "txRun"}
    /\ acct' = acct
    /\ pc' = [pc EXCEPT ![r] = onTxError.pc]
    /\ outcome' = [outcome EXCEPT ![r] = "failopen"]
    /\ currentCredits' = [currentCredits EXCEPT ![r] = onTxError.currentCredits]
    /\ snap' = [snap EXCEPT ![r] = NoDoc]
    /\ UNCHANGED <<initDoc, refundCalls, refundOk, adm, reviewVars, topUpVars, bal>>
    /\ UNCHANGED queueVars

\* -------------------------------------------------- CreditLedger.refundOne
\* mutant: the refund gives the credit back and leaves totalGenerations
refundCreditsOnly(doc, storeUp) ==
    IF storeUp /\ doc.exists
    THEN Doc(doc.credits + One, doc.totalGenerations)
    ELSE doc

\* usageRef.update with FieldValue.increment: one atomic write; update of a
\* missing document, or an unreachable store, throws and the catch logs it.
refundUserCredit(doc, storeUp) ==
    IF storeUp /\ doc.exists
    THEN Doc(doc.credits + One, doc.totalGenerations - 1)
    ELSE doc

\* ------------------------------------------------------------- GeminiQueue
\* mutant: off by one in the capacity test
hasCapacityOffByOne(active, max) == active <= max
hasCapacity(active, max) == active < max

\* mutants: processNext takes the newest entry (pop), or none
nextTaskNewest(q) == IF Len(q) = 0 THEN NoReq ELSE q[Len(q)]
nextTaskNone(q) == NoReq

\* processNext: the entry shift() takes, and what stays queued
nextTask(q) == IF Len(q) = 0 THEN NoReq ELSE Head(q)
afterShift(q) == IF Len(q) = 0 THEN q ELSE Tail(q)

\* mutant: the slot is given back only after a result (no finally)
releaseOnSuccess(active, ok) == IF ok THEN active - 1 ELSE active

\* execute's finally block runs for a result and for a throw alike
release(active, ok) == active - 1

\* mutant: a wait list that holds one entry and drops the rest
pushBounded(q, t) == IF Len(q) >= 1 THEN q ELSE Append(q, t)

\* enqueue, no slot free: this.queue.push({ fn, resolve, reject })
push(q, t) == Append(q, t)

\* how the handle of a finished task settles
settle(ok) == IF ok THEN "resolved" ELSE "rejected"

enqueue(t) ==
    /\ tstate[t] = "new"
    /\ IF hasCapacity(activeCount, maxConcurrent)
       THEN /\ activeCount' = activeCount + 1
            /\ tstate' = [tstate EXCEPT ![t] = "running"]
            /\ queue' = queue
            /\ waited' = waited
       ELSE /\ queue' = push(queue, t)
            /\ tstate' = [tstate EXCEPT ![t] = "queued"]
            /\ activeCount' = activeCount
            /\ waited' = waited \cup {t}
    /\ submitted' = Append(submitted, t)
    /\ UNCHANGED <<maxConcurrent, handle>>

\* mutant: the entry's resolve and reject belong to the next caller
handleOfOther(t) == (t % NumReq) + 1

\* the promise a task's end settles: execute(fn)'s own for a task started by
\* enqueue, the entry's resolve and reject for one started by processNext
handleOf(t) == t

\* fn() settles: finally { activeCount--; processNext() }, then the handle
finish(t, ok) ==
    /\ tstate[t] = "running"
    /\ LET next == nextTask(queue)
       IN /\ activeCount' = IF next = NoReq THEN release(activeCount, ok)
                                             ELSE release(activeCount, ok) + 1
          /\ queue' = afterShift(queue)
          /\ tstate' = [u \in Req |->
                          IF u = t THEN settle(ok)
                          ELSE IF u = next THEN "running"
                          ELSE tstate[u]]
    /\ handle' = [handle EXCEPT ![handleOf(t)] = settle(ok)]
    /\ UNCHANGED <<maxConcurrent, submitted, waited>>

\* mutant: the status counts the caller as queued (as the log line does)
getStatusPlusOne ==
    [activeCount |-> activeCount, queuedCount |-> Len(queue) + 1,
     maxConcurrent |-> maxConcurrent]

\* getStatus(): a snapshot of the three fields
getStatus ==
    [activeCount |-> activeCount, queuedCount |-> Len(queue),
     maxConcurrent |-> maxConcurrent]

\* The queue on its own: any caller may enqueue, tasks end either way.
Submit(t) ==
    /\ enqueue(t)
    /\ UNCHANGED <<ledgerVars, reqVars, adm, reviewVars, topUpVars, bal>>

TaskDone(t) ==
    /\ \E ok \in BOOLEAN : finish(t, ok)
    /\ UNCHANGED <<ledgerVars, reqVars, adm, reviewVars, topUpVars, bal>>

\* ------------------------------------------------------ RequestOrchestrator
\* The route handler of a credit-gated request, after userCreditLimiter called
\* next(): submit the generation to the queue, refund on failure, answer.
HandlerSubmit(r) ==
    /\ pc[r] = "admitted"
    /\ enqueue(r)
    /\ pc' = [pc EXCEPT ![r] = "awaiting"]
    /\ UNCHANGED <<ledgerVars, snap, outcome, currentCredits, refundCalls, refundOk, adm, reviewVars, topUpVars, bal>>

\* mutant: the handler refunds twice
refundsTwice == 1 + 1

\* refundOne calls the handler makes for one failed task
refundsPerFailure == 1

\* mutant: the handler refunds whenever the task has ended
refundDueAlways(state) == state \in {"resolved", "rejected"}

\* step 3: the refund is for work that failed; step 4: none after a success
refundDue(state) == state = "rejected"

\* mutant: a failed refund is thrown to the handler as an error of its own
afterRefundThrows(ok) == IF ok THEN "refunded" ELSE "refundError"

\* refundUserCredit's catch logs and returns: the handler goes on to surface
\* the task's failure whether or not the refund was written
afterRefund(ok) == "refunded"

HandlerRefund(r) ==
    /\ pc[r] = "awaiting"
    /\ refundDue(tstate[r])
    /\ \E storeUp \in BOOLEAN :
          /\ acct' = refundUserCredit(acct, storeUp)
          /\ refundOk' = [refundOk EXCEPT ![r] = storeUp /\ acct.exists]
          /\ pc' = [pc EXCEPT ![r] = afterRefund(storeUp /\ acct.exists)]
    /\ refundCalls' = [refundCalls EXCEPT ![r] = @ + refundsPerFailure]
    /\ UNCHANGED <<initDoc, snap, outcome, currentCredits, adm, reviewVars, topUpVars, bal>>
    /\ UNCHANGED queueVars

RespondError(r) ==
    /\ pc[r] = "refunded"
    /\ pc' = [pc EXCEPT ![r] = "error"]
    /\ UNCHANGED <<ledgerVars, snap, outcome, currentCredits, refundCalls, refundOk, adm, reviewVars, topUpVars, bal>>
    /\ UNCHANGED queueVars

RespondOk(r) ==
    /\ pc[r] = "awaiting"
    /\ tstate[r] = "resolved"
    /\ pc' = [pc EXCEPT ![r] = "ok"]
    /\ UNCHANGED <<ledgerVars, snap, outcome, currentCredits, refundCalls, refundOk, adm, reviewVars, topUpVars, bal>>
    /\ UNCHANGED queueVars

\* a task of the pipeline ends
WorkDone(r) ==
    /\ pc[r] = "awaiting"
    /\ \E ok \in BOOLEAN : finish(r, ok)
    /\ UNCHANGED <<ledgerVars, reqVars, adm, reviewVars, topUpVars, bal>>

\* ------------------------------------------------------------ admin routes
\* Request bodies tried by an administrator: a negative number, zero, a
\* fraction of a credit, one credit.
AdminAmounts == {0 - One, 0, 1, One}

\* PUT /usage/:uid/credits: typeof credits !== 'number' || credits < 0 is a 400
validSetCredits(credits) == credits >= 0

\* PUT /credit-requests/:id: credits are added when approved with credits > 0
validGrant(credits) == credits > 0

\* ref.get() of a set-credits call; a refused body ends the call
AdminGet(a) ==
    /\ adm[a].op = "idle"
    /\ \E credits \in AdminAmounts :
          IF validSetCredits(credits)
          THEN adm' = [adm EXCEPT ![a] = [AdmIdle EXCEPT !.op = "set", !.credits = credits,
                                                         !.sawDoc = acct.exists]]
          ELSE adm' = [adm EXCEPT ![a] = AdmDone]
    /\ UNCHANGED <<ledgerVars, reqVars, queueVars, reviewVars, topUpVars, bal>>

\* POST /user/request-credits: creditRequests.add({ ..., status: 'pending' })
RequestCredits ==
    /\ creditReq = "none"
    /\ creditReq' = "pending"
    /\ UNCHANGED <<ledgerVars, reqVars, queueVars, adm, added, topUpVars, bal>>

\* PUT /credit-requests/:id goes on whenever the request document exists
reviewable(status) == status # "none"

\* reqRef.get(): 404 when the request does not exist; credits is optional in
\* the body and is read only for an approval
ReviewGet(a) ==
    /\ adm[a].op = "idle"
    /\ \E status \in {"approved", "denied"} :
       \E credits \in IF status = "approved" THEN AdminAmounts ELSE {0} :
          IF reviewable(creditReq)
          THEN adm' = [adm EXCEPT ![a] = [AdmIdle EXCEPT !.op = "review", !.credits = credits,
                                                         !.status = status,
                                                         !.late = creditReq # "pending"]]
          ELSE adm' = [adm EXCEPT ![a] = AdmDone]
    /\ UNCHANGED <<ledgerVars, reqVars, queueVars, reviewVars, topUpVars, bal>>

\* reqRef.update({ status, reviewedBy, reviewedAt }); the grant follows when
\* status === 'approved' && credits > 0
ReviewUpdate(a) ==
    /\ adm[a].op = "review"
    /\ creditReq' = adm[a].status
    /\ adm' = [adm EXCEPT ![a] = IF adm[a].status = "approved" /\ validGrant(adm[a].credits)
                                 THEN [adm[a] EXCEPT !.op = "approved"]
                                 ELSE AdmDone]
    /\ UNCHANGED <<ledgerVars, reqVars, queueVars, added, topUpVars, bal>>

\* usageRef.get() of the grant
GrantGet(a) ==
    /\ adm[a].op = "approved"
    /\ adm' = [adm EXCEPT ![a] = [adm[a] EXCEPT !.op = "grant", !.sawDoc = acct.exists]]
    /\ UNCHANGED <<ledgerVars, reqVars, queueVars, reviewVars, topUpVars, bal>>

\* ref.update({ credits }) on a document that was seen, ref.set(...) otherwise;
\* update of a document deleted meanwhile throws
setCredits(doc, credits, sawDoc) ==
    IF sawDoc
    THEN IF doc.exists THEN Doc(credits, doc.totalGenerations) ELSE doc
    ELSE Doc(credits, 0)

\* usageRef.update({ credits: FieldValue.increment(credits) }) or usageRef.set
grantCredits(doc, credits, sawDoc) ==
    IF sawDoc
    THEN IF doc.exists THEN Doc(doc.credits + credits, doc.totalGenerations) ELSE doc
    ELSE Doc(credits, 0)

\* the write returned: update throws on a document that is gone
wrote(doc, sawDoc) == ~sawDoc \/ doc.exists

AdminWrite(a) ==
    /\ adm[a].op \in {"set", "grant"}
    /\ acct' = IF adm[a].op = "set"
               THEN setCredits(acct, adm[a].credits, adm[a].sawDoc)
               ELSE grantCredits(acct, adm[a].credits, adm[a].sawDoc)
    /\ added' = IF adm[a].op = "grant" /\ wrote(acct, adm[a].sawDoc)
                THEN added + adm[a].credits
                ELSE added
    /\ adm' = [adm EXCEPT ![a] = AdmDone]
    /\ UNCHANGED <<initDoc, reqVars, queueVars, creditReq, topUpVars, bal>>

\* DELETE /users/:uid removes the userUsage document
AdminDelete(a) ==
    /\ adm[a].op = "idle"
    /\ acct' = NoDoc
    /\ adm' = [adm EXCEPT ![a] = AdmDone]
    /\ UNCHANGED <<initDoc, reqVars, queueVars, reviewVars, topUpVars, bal>>

Review(a) == ReviewGet(a) \/ ReviewUpdate(a) \/ GrantGet(a)

Admin(a) == AdminGet(a) \/ AdminWrite(a) \/ AdminDelete(a) \/ Review(a)

\* -------------------------------------------------- CreditLedger.getBalance
\* GET /user/credits: usageRef.get()
BalanceGet ==
    /\ bal = "idle"
    /\ bal' = IF acct.exists THEN "sawDoc" ELSE "sawNone"
    /\ UNCHANGED <<ledgerVars, reqVars, queueVars, adm, reviewVars, topUpVars>>

\* first-time user: usageRef.set({ credits: 0, totalGenerations: 0, ... })
\* replaces whatever is stored
createOnRead(doc) == Doc(0, 0)

\* the write that follows the read: set for a user that had no document,
\* update of email and displayName (no counter touched) for one that had
BalanceWrite ==
    /\ bal \in {"sawDoc", "sawNone"}
    /\ acct' = IF bal = "sawNone" THEN createOnRead(acct) ELSE acct
    /\ bal' = "done"
    /\ UNCHANGED <<initDoc, reqVars, queueVars, adm, reviewVars, topUpVars>>

\* ------------------------------------------------------------ daily top-up
\* mutant: a window that never closes the door
inWindowNever(last, t) == FALSE

\* fewer than 24 hours have elapsed since lastCreditRefresh
inWindow(last, t) == t - last < DayTicks

\* mutant: exemption is not looked at
skipsWindowOnly(exempt, last, t) == inWindow(last, t)

\* topUp returns null: exemptFromPolicy, or inside the window
skips(exempt, last, t) == exempt \/ inWindow(last, t)

\* mutant: the whole increment whatever the cap
awardUncapped(credits, increment, cap) == increment

\* credits >= cap awards 0, else min(increment, cap - credits)
award(credits, increment, cap) ==
    IF credits >= cap THEN 0
    ELSE IF increment < cap - credits THEN increment ELSE cap - credits

\* mutant: capped only when the balance was already at the cap
isCappedAtCapOnly(credits, increment, cap) == credits >= cap

\* capped: at or over the cap, or awarded less than the increment
isCapped(credits, increment, cap) ==
    credits >= cap \/ award(credits, increment, cap) < increment

\* topUp(u, increment, cap, exemptFromPolicy) at time t: the result, the
\* account and lastCreditRefresh it leaves
topUp(doc, last, t, p) ==
    IF skips(p.exempt, last, t)
    THEN [result |-> NullResult, doc |-> doc, lastCreditRefresh |-> last]
    ELSE LET awarded == award(doc.credits, p.increment, p.cap)
         IN [result |-> [null |-> FALSE, awarded |-> awarded,
                         newBalance |-> doc.credits + awarded,
                         capped |-> isCapped(doc.credits, p.increment, p.cap)],
             doc |-> Doc(doc.credits + awarded, doc.totalGenerations),
             lastCreditRefresh |-> t]

\* one evaluation, atomic with reserveOne and refundOne; an absent account is
\* created with credits = 0 first
TopUp ==
    /\ top.n < MaxEvals
    /\ LET doc == IF acct.exists THEN acct ELSE Doc(0, 0)
           r == topUp(doc, lastCreditRefresh, now, policy)
       IN /\ acct' = r.doc
          /\ lastCreditRefresh' = r.lastCreditRefresh
          /\ top' = [n |-> top.n + 1, at |-> now, result |-> r.result,
                     prevAt |-> top.at, prevNull |-> top.n = 0 \/ top.result.null]
    /\ UNCHANGED <<initDoc, reqVars, queueVars, adm, reviewVars, now, policy, bal>>

\* time passes
Tick ==
    /\ now < MaxNow
    /\ now' = now + 1
    /\ UNCHANGED <<ledgerVars, reqVars, queueVars, adm, reviewVars,
                   lastCreditRefresh, policy, top, bal>>

\* ---------------------------------------------------------- specifications
Reserve(r) == TxGet(r) \/ TxCommit(r) \/ StoreError(r)

Handle(r) ==
    \/ HandlerSubmit(r)
    \/ WorkDone(r)
    \/ HandlerRefund(r)
    \/ RespondError(r)
    \/ RespondOk(r)

NextReserve == \E r \in Req : Reserve(r)
NextQueue == \E t \in Req : Submit(t) \/ TaskDone(t)
NextPipeline == \E r \in Pipe : Reserve(r) \/ Handle(r)
NextSolo == Reserve(1) \/ Handle(1)

Next ==
    \/ \E r \in Pipe : Reserve(r) \/ Handle(r)
    \/ Admin(1)
    \/ RequestCredits

\* credit grants against concurrent reservations
NextGrant ==
    \/ \E r \in Pipe : Reserve(r)
    \/ \E a \in Adm : Review(a) \/ AdminWrite(a)
    \/ RequestCredits

Spec == Init /\ [][Next]_vars
SpecReserve == Init /\ [][NextReserve]_vars
SpecGrant == Init /\ [][NextGrant]_vars

\* a balance query against the administrative writes
NextBalance ==
    \/ BalanceGet
    \/ BalanceWrite
    \/ \E a \in Adm : AdminGet(a) \/ AdminWrite(a) \/ Review(a)
    \/ RequestCredits
SpecBalance == Init /\ [][NextBalance]_vars

\* the top-up policy over existing accounts, with one request reserving
InitTopUp ==
    /\ acct \in {Doc(c * One, 0) : c \in 0 .. MaxCap}
    /\ initDoc = acct
    /\ pc = [r \in Req |-> "idle"]
    /\ snap = [r \in Req |-> NoDoc]
    /\ outcome = [r \in Req |-> "pending"]
    /\ currentCredits = [r \in Req |-> 0]
    /\ refundCalls = [r \in Req |-> 0]
    /\ refundOk = [r \in Req |-> FALSE]
    /\ maxConcurrent = 1
    /\ activeCount = 0
    /\ queue = <<>>
    /\ tstate = [t \in Req |-> "new"]
    /\ handle = [t \in Req |-> "pending"]
    /\ submitted = <<>>
    /\ waited = {}
    /\ adm = [a \in Adm |-> AdmIdle]
    /\ creditReq = "none"
    /\ added = 0
    /\ now = 0
    /\ lastCreditRefresh = 0
    /\ policy \in {[increment |-> i * One, cap |-> c * One, exempt |-> e] :
                      i \in 0 .. MaxIncrement, c \in 0 .. MaxCap, e \in BOOLEAN}
    /\ top = NoTop
    /\ bal = "idle"
NextTopUp == TopUp \/ Tick \/ Reserve(1)
SpecTopUp == InitTopUp /\ [][NextTopUp]_vars
\* the queue never reads the ledger: one starting document is enough
InitQueue == Init /\ acct = NoDoc
SpecQueue == InitQueue /\ [][NextQueue]_vars
\* every started task eventually completes
SpecQueueFair == SpecQueue /\ \A t \in Req : WF_vars(TaskDone(t))
SpecPipeline == Init /\ [][NextPipeline]_vars
SpecSolo == Init /\ [][NextSolo]_vars

\* ------------------------------------------------------------------ claims
Min(a, b) == IF a < b THEN a ELSE b
Settled == {"resolved", "rejected"}
Started(t) == tstate[t] \in {"running"} \cup Settled
Position(t) == CHOOSE i \in 1 .. Len(submitted) : submitted[i] = t

Arrived == {r \in Req : pc[r] # "idle"}
InFlight == {r \in Req : outcome[r] = "pending" /\ pc[r] # "idle"}
Granted == {r \in Req : outcome[r] = "granted"}
FailedOpen == {r \in Req : outcome[r] = "failopen"}
\* the starting balance in whole credits
StartBalance == IF initDoc.exists THEN initDoc.credits \div One ELSE 0

\* C1: no double-spend. With a starting balance of B whole credits and N
\* concurrent reserveOne calls that all reached the store, once every call has
\* returned exactly min(N, B) of them were granted.
C1_NoDoubleSpend ==
    (InFlight = {} /\ FailedOpen = {})
        => Cardinality(Granted) = Min(Cardinality(Arrived), StartBalance)

C1_Witness ==
    /\ StartBalance = 1
    /\ Cardinality(Arrived) = NumReq
    /\ InFlight = {}
    /\ FailedOpen = {}
    /\ Cardinality(Granted) = 1

\* C2: the number of running tasks stays between 0 and maxConcurrent, whatever
\* the order of submissions and of completions, successful or failing.
C2_ActiveCountBounded == 0 <= activeCount /\ activeCount <= maxConcurrent

C2_Witness ==
    /\ activeCount = maxConcurrent
    /\ queue # <<>>
    /\ \E t \in Req : tstate[t] = "rejected"

\* C3: FIFO. A task never starts before a task submitted earlier has started,
\* and the wait list holds the waiting tasks in submission order.
C3_FifoStartOrder ==
    /\ \A i, j \in 1 .. Len(submitted) :
          (i < j /\ Started(submitted[j])) => Started(submitted[i])
    /\ \A i, j \in 1 .. Len(queue) :
          i < j => Position(queue[i]) < Position(queue[j])

C3_Witness ==
    /\ maxConcurrent = 1
    /\ Len(submitted) >= 3
    /\ tstate[submitted[1]] \in Settled
    /\ tstate[submitted[2]] = "running"
    /\ submitted[2] \in waited
    /\ tstate[submitted[3]] = "queued"

\* C4: the balance of an account is never negative, under any interleaving of
\* reservations, refunds and the administrative routes.
C4_CreditsNonNegative == acct.credits >= 0

\* C5: no starvation. When every started task eventually completes, every
\* submitted task eventually starts and its handle eventually settles.
C5_NoStarvation ==
    \A t \in Req :
        /\ (tstate[t] = "queued") ~> (tstate[t] = "running")
        /\ (tstate[t] \in {"queued", "running"}) ~> (tstate[t] \in Settled)

C5_Witness ==
    /\ Cardinality(waited) >= 2
    /\ \A t \in waited : tstate[t] \in Settled

\* C6: a failing task does not block the queue. The step in which a running
\* task fails rejects that task's own handle and no other, gives the slot back
\* and starts the head of the wait list if there is one.
C6_FailureReleasesSlot ==
    [][\A t \in Req :
          (tstate[t] = "running" /\ tstate'[t] = "rejected") =>
              /\ \A u \in Req \ {t} : tstate'[u] \in Settled => tstate'[u] = tstate[u]
              /\ queue = <<>> => (activeCount' = activeCount - 1 /\ queue' = <<>>)
              /\ queue # <<>> => /\ tstate'[Head(queue)] = "running"
                                 /\ queue' = Tail(queue)
                                 /\ activeCount' = activeCount]_vars

C6_Witness ==
    /\ \E t \in Req : tstate[t] = "rejected"
    /\ \A t \in Req : tstate[t] # "resolved"
    /\ \E u \in waited : tstate[u] = "running"

C8_DeniedNeverSubmitted ==
    \A r \in Req :
        outcome[r] = "denied" =>
            /\ pc[r] = "rejected"
            /\ tstate[r] = "new"
            /\ \A i \in 1 .. Len(submitted) : submitted[i] # r

C8_Witness ==
    /\ \E r \in Req : outcome[r] = "denied"
    /\ \E r \in Req : outcome[r] = "granted" /\ tstate[r] \in Settled

\* C9: refund round trip. On an account nothing else touches, a granted
\* reservation followed by its refund leaves credits and totalGenerations at
\* their values before the reservation.
C9_RefundRoundTrip ==
    (outcome[1] = "granted" /\ refundOk[1]) =>
        /\ acct.credits = initDoc.credits
        /\ acct.totalGenerations = initDoc.totalGenerations

C9_Witness ==
    /\ outcome[1] = "granted"
    /\ refundOk[1]
    /\ pc[1] = "error"
    /\ initDoc.credits = One

\* C10: fail open. A reservation that finds the store unreachable lets the
\* request through with currentCredits = -1 and leaves the account as it was.
C10_FailOpen ==
    [][\A r \in Req :
          (outcome[r] = "pending" /\ outcome'[r] = "failopen") =>
              /\ pc'[r] = "admitted"
              /\ currentCredits'[r] = 0 - One
              /\ acct' = acct]_vars

C10_Witness ==
    /\ \E r \in Req : outcome[r] = "failopen" /\ pc[r] = "admitted"
    /\ \E r \in Req : outcome[r] = "granted"

Max(a, b) == IF a > b THEN a ELSE b
Finished == \A r \in Req : pc[r] \in {"idle", "rejected", "ok", "error"}
Succeeded == {r \in Req : pc[r] = "ok"}
NoStoreFailure == FailedOpen = {} /\ \A r \in Req : pc[r] = "error" => refundOk[r]

C17_NeverRejects ==
    [][\A t \in Req :
          (tstate[t] = "new" /\ tstate'[t] # "new") =>
              \/ tstate'[t] = "running" /\ queue' = queue
              \/ tstate'[t] = "queued" /\ queue' = Append(queue, t)]_vars

C17_Witness ==
    /\ Len(queue) >= 2
    /\ activeCount = maxConcurrent

\* C18: admission decision. A submitted task starts in the step of the call,
\* with activeCount incremented, exactly when activeCount < maxConcurrent;
\* otherwise it is appended at the tail, is not started and activeCount stays.
C18_AdmissionDecision ==
    [][\A t \in Req :
          (tstate[t] = "new" /\ tstate'[t] # "new") =>
              IF activeCount < maxConcurrent
              THEN /\ tstate'[t] = "running"
                   /\ activeCount' = activeCount + 1
                   /\ queue' = queue
              ELSE /\ tstate'[t] = "queued"
                   /\ activeCount' = activeCount
                   /\ queue' = Append(queue, t)]_vars

C18_Witness ==
    /\ \E t \in Req : tstate[t] = "running" /\ t \notin waited
    /\ \E t \in Req : tstate[t] = "queued"

\* C19: with maxConcurrent = k, after m submissions and no completion the
\* status reports activeCount = min(m, k) and queuedCount = max(0, m - k).
C19_StatusAfterSubmissions ==
    (\A t \in Req : tstate[t] \notin Settled) =>
        /\ getStatus.activeCount = Min(Len(submitted), maxConcurrent)
        /\ getStatus.queuedCount = Max(0, Len(submitted) - maxConcurrent)
        /\ getStatus.maxConcurrent = maxConcurrent

C19_Witness ==
    /\ \A t \in Req : tstate[t] \notin Settled
    /\ Len(submitted) > maxConcurrent
    /\ getStatus.queuedCount = Len(submitted) - maxConcurrent

\* C20: a granted reservation on a balance c > 0 with g generations leaves
\* c - 1 and g + 1 and attaches c - 1 as the remaining balance, in one step.
C20_GrantedReserve ==
    [][\A r \in Req :
          (outcome[r] = "pending" /\ outcome'[r] = "granted") =>
              /\ acct.exists /\ acct.credits > 0
              /\ acct'.credits = acct.credits - One
              /\ acct'.totalGenerations = acct.totalGenerations + 1
              /\ currentCredits'[r] = acct.credits - One]_vars

C20_Witness ==
    \E r \in Req :
        /\ outcome[r] = "granted"
        /\ currentCredits[r] = acct.credits
        /\ acct.credits = initDoc.credits - One
        /\ acct.totalGenerations = initDoc.totalGenerations + 1

Reviewed == {"approved", "denied"}
\* every call has returned: reservations decided, admin calls ended
Quiet ==
    /\ \A r \in Req : pc[r] \in {"idle", "rejected", "admitted"}
    /\ \A a \in Adm : adm[a].op \in {"idle", "done"}

\* C12: the credit grant is atomic. When grants run concurrently with
\* reservations or with other grants, whether or not the account exists, the
\* final credits are the starting credits plus the sum of the deltas minus
\* one per granted reservation.
C12_GrantAtomic ==
    (Quiet /\ FailedOpen = {}) =>
        acct.credits = initDoc.credits + added - One * Cardinality(Granted)

\* C13: a credit request is mutated exactly once. A reviewed request keeps
\* its status, and a reviewer call that found the request already reviewed
\* changes no credits.
C13_ReviewedOnce ==
    [][/\ creditReq \in Reviewed => creditReq' = creditReq
       /\ \A a \in Adm :
             (adm[a].op = "grant" /\ adm[a].late /\ adm'[a].op = "done") => acct' = acct]_vars

\* the step is a topUp evaluation
Evaluates == top'.n = top.n + 1
NoEffect == top'.result.null /\ acct' = acct /\ lastCreditRefresh' = lastCreditRefresh

\* C14: daily top-up cap. On an eligible, non-exempt account with
\* credits < cap, topUp awards min(increment, cap - credits), the new balance
\* is credits + awarded and never above cap; with credits >= cap it awards 0
\* and leaves credits unchanged.
C14_TopUpCap ==
    [][(Evaluates /\ ~policy.exempt /\ now - lastCreditRefresh >= DayTicks) =>
          /\ ~top'.result.null
          /\ IF acct.credits < policy.cap
             THEN /\ top'.result.awarded = Min(policy.increment, policy.cap - acct.credits)
                  /\ acct'.credits = acct.credits + top'.result.awarded
                  /\ top'.result.newBalance = acct'.credits
                  /\ acct'.credits <= policy.cap
             ELSE /\ top'.result.awarded = 0
                  /\ acct'.credits = acct.credits]_vars

\* credits = 8, cap = 10, increment = 5: awarded 2, capped, balance 10
C14_Witness ==
    /\ policy.cap = 10 * One /\ policy.increment = 5 * One
    /\ top.n = 1
    /\ top.result = [null |-> FALSE, awarded |-> 2 * One, newBalance |-> 10 * One,
                     capped |-> TRUE]
    /\ acct.credits = 10 * One
    /\ initDoc.credits = 8 * One

\* C15 as stated: of two topUp evaluations less than 24 hours apart the
\* second returns null and changes neither credits nor lastCreditRefresh.
C15_SecondInWindowIsNull ==
    [][(Evaluates /\ top.n > 0 /\ now - top.at < DayTicks) => NoEffect]_vars

\* C15, amended: when the first of two evaluations less than 24 hours apart
\* did not return null (it set lastCreditRefresh), the second returns null
\* and changes neither credits nor lastCreditRefresh.
C15_SecondAfterRefreshIsNull ==
    [][(Evaluates /\ top.n > 0 /\ ~top.result.null /\ now - top.at < DayTicks)
          => NoEffect]_vars

C15_Witness ==
    /\ top.n >= 2
    /\ ~top.prevNull
    /\ top.at - top.prevAt < DayTicks
    /\ top.result.null
    /\ ~policy.exempt
    /\ lastCreditRefresh = top.prevAt

\* C16: exempt accounts never top up. With exemptFromPolicy the evaluation
\* returns null and leaves credits and lastCreditRefresh unchanged, however
\* much time has passed since the last refresh.
C16_ExemptNeverTopsUp ==
    [][(Evaluates /\ policy.exempt) => NoEffect]_vars

C16_Witness ==
    /\ policy.exempt
    /\ top.n >= 1
    /\ top.result.null
    /\ top.at - lastCreditRefresh > DayTicks
    /\ policy.increment > 0 /\ acct.credits < policy.cap

\* the step decides request r's reservation in the store
Decides(r) == outcome[r] = "pending" /\ outcome'[r] \in {"granted", "denied"}

\* C21: a reserveOne that is not granted returns remaining = 0 and leaves an
\* existing account as it is; on an absent account it only creates the account
\* with credits = 0 and totalGenerations = 0, so a first reserveOne on an
\* absent account is never granted.
C21_DeniedReserveFrame ==
    [][\A r \in Req :
          /\ (Decides(r) /\ outcome'[r] = "denied") =>
                /\ txBody(acct).credits = 0
                /\ currentCredits'[r] = currentCredits[r]
                /\ IF acct.exists THEN acct' = acct ELSE acct' = Doc(0, 0)
          /\ (Decides(r) /\ ~acct.exists) => outcome'[r] = "denied"]_vars

C21_Witness ==
    /\ ~initDoc.exists
    /\ acct = Doc(0, 0)
    /\ \A r \in Req : outcome[r] = "denied" /\ pc[r] = "rejected"

\* C24: totalGenerations >= 0 in every reachable state, under any sequence of
\* reservations, refunds and administrative operations.
C24_GenerationsNonNegative == acct.totalGenerations >= 0

\* C26 as stated: for every non-null topUp result, with any increment >= 0
\* and cap >= 0, capped is true iff the awarded amount is less than increment.
C26_CappedIffBelowIncrement ==
    (top.n > 0 /\ ~top.result.null) =>
        (top.result.capped <=> top.result.awarded < policy.increment)

\* C26, amended: for every non-null topUp result with increment > 0 and
\* cap >= 0, capped is true iff the awarded amount is less than increment;
\* with increment = 0 capped is true iff the balance was at or over the cap.
C26_CappedIffBelowPositiveIncrement ==
    (top.n > 0 /\ ~top.result.null) =>
        IF policy.increment > 0
        THEN top.result.capped <=> top.result.awarded < policy.increment
        ELSE top.result.capped <=> top.result.newBalance >= policy.cap

C26_Witness ==
    /\ top.n > 0 /\ ~top.result.null
    /\ top.result.capped
    /\ top.result.awarded > 0
    /\ top.result.awarded < policy.increment

\* C27: work conservation. A non-empty wait list implies
\* activeCount = maxConcurrent, so a task that is submitted is never started
\* in the step of the call while another task waits.
C27_WorkConservation ==
    [][/\ queue # <<>> => activeCount = maxConcurrent
       /\ queue' # <<>> => activeCount' = maxConcurrent
       /\ \A t \in Req : (tstate[t] = "new" /\ tstate'[t] = "running") => queue = <<>>]_vars

C27_Witness ==
    /\ queue # <<>>
    /\ activeCount = maxConcurrent
    /\ \E t \in Req : tstate[t] \in Settled
    /\ \E t \in Req : tstate[t] = "running" /\ t \in waited

C30_ActiveCountIsRunning ==
    /\ activeCount = Cardinality({t \in Req : tstate[t] = "running"})
    /\ (\A i \in 1 .. Len(submitted) : tstate[submitted[i]] \in Settled) =>
          (activeCount = 0 /\ queue = <<>>)

C30_Witness ==
    /\ Len(submitted) = NumReq
    /\ \A t \in Req : tstate[t] \in Settled
    /\ waited # {}
    /\ \E t \in Req : tstate[t] = "rejected"
    /\ activeCount = 0

\* the account right after request 1's reservation, nothing else running
PostReservation == Doc(initDoc.credits - One, initDoc.totalGenerations + 1)

C23_BestEffortRefund ==
    (refundCalls[1] > 0 /\ ~refundOk[1]) =>
        /\ pc[1] \in {"refunded", "error"}
        /\ refundCalls[1] = 1
        /\ tstate[1] = "rejected"
        /\ outcome[1] = "granted" => acct = PostReservation

C23_Witness ==
    /\ outcome[1] = "granted"
    /\ pc[1] = "error"
    /\ refundCalls[1] = 1
    /\ ~refundOk[1]
    /\ acct = PostReservation

\* how often task t is on the wait list
TimesQueued(t) == Cardinality({i \in 1 .. Len(queue) : queue[i] = t})

\* C28: every submitted task is started at most once: a queued task leaves
\* the wait list only by being started and is then no longer on it. Each
\* caller's handle settles with the outcome of its own task.
C28_StartedOnceOwnHandle ==
    [][\A t \in Req :
          /\ TimesQueued(t) = (IF tstate[t] = "queued" THEN 1 ELSE 0)
          /\ (tstate[t] = "queued" /\ tstate'[t] # "queued") =>
                (tstate'[t] = "running" /\ TimesQueued(t)' = 0)
          /\ (tstate[t] # "running" /\ tstate'[t] = "running") =>
                tstate[t] \in {"new", "queued"}
          /\ tstate[t] \in Settled => tstate'[t] = tstate[t]
          /\ handle'[t] = (IF tstate'[t] \in Settled THEN tstate'[t] ELSE "pending")]_vars

C28_Witness ==
    /\ \E t \in waited : handle[t] = "rejected"
    /\ \E t \in waited : handle[t] = "resolved"
    /\ \E t \in Req : t \notin waited /\ handle[t] \in Settled

\* C25: getBalance is read-only with respect to the balance. Interleaved with
\* the administrative set and grant it never changes the credits or
\* totalGenerations of an account, and its lazy creation takes effect only if
\* no account exists at the moment it writes.
C25_BalanceReadOnly ==
    [][(bal \in {"sawDoc", "sawNone"} /\ bal' = "done") =>
          IF acct.exists THEN acct' = acct ELSE acct' \in {acct, Doc(0, 0)}]_vars
====
